---- MODULE Spec2Model ----
(***************************************************************************)
(* LedgerSync record stores: the entry stream (ledger.jsonl), the promise  *)
(* stream (promises.jsonl) and the report stream (reports.jsonl).          *)
(*                                                                         *)
(* A stream file is a sequence of tokens: a newline, a blank, a piece of   *)
(* text that is no JSON, or the JSON text of one object.  Every step of an *)
(* action is one file-system call of the store function it belongs to      *)
(* (readFileSync, appendFileSync, writeFileSync), so that calls of         *)
(* separate processes interleave exactly where the operating system lets   *)
(* them.                                                                   *)
(***************************************************************************)
EXTENDS Integers, Sequences, FiniteSets, TLC

VARIABLES ledgerFile,    \* content of .ledgersync/ledger.jsonl
          promisesFile,  \* content of .ledgersync/promises.jsonl
          reportsFile,   \* content of .ledgersync/reports.jsonl
          now,           \* the wall clock read by new Date()
          uuids,         \* the ids uuidv4() has handed out
          pc,            \* per process: where it is inside a store call
          loc,           \* per process: the locals of the call in progress
          ret,           \* per process: the outcome of its latest call
          budget         \* the store calls the run may still start

vars == <<ledgerFile, promisesFile, reportsFile, now, uuids, pc, loc, ret,
          budget>>

-----------------------------------------------------------------------------
(* Bounds of the model *)

\* The store calls of a run: of one caller, and of concurrent processes.
MaxCalls == 3
MaxConcCalls == 4
\* The calls of processes that give verdicts and may be terminated.
MaxVerdictCalls == 3
MaxClock == 1
\* The streams handed to the queries: the entries of a well-formed entry
\* stream, the tokens of a stream edited by hand.
MaxEntries == 6
MaxTokens == 3
\* The depth of the directories a search for the store's folder starts in.
MaxDepth == 3

Procs == {"p1", "p2"}
SeqProcs == {"p1"}

-----------------------------------------------------------------------------
(* JavaScript values.  A key whose value is undefined and a missing key    *)
(* are the same thing to every reader of these records; undefined has one  *)
(* representative per type.                                                *)

Undefined == "undefined"
UndefinedNum == -1
UndefinedId == <<>>

EntryFields == {"id", "timestamp", "agent", "session", "entryIndex",
                "summary", "intent", "confidence", "artifacts"}
PromiseFields == {"id", "timestamp", "promiser", "promisee", "ptype",
                  "summary", "status", "resolvedBy", "resolvedAt",
                  "supersededBy"}
ReportFields == {"id", "timestamp", "agent", "role", "promiseId",
                 "workCompleted", "confidenceInCompletion", "verdict",
                 "reasoning"}

NumFields == {"timestamp", "entryIndex", "confidence", "resolvedAt",
              "confidenceInCompletion"}
IdFields == {"id", "session", "promiseId", "resolvedBy", "supersededBy"}
ListFields == {"artifacts"}

UndefinedOf(f) ==
    IF f \in NumFields THEN UndefinedNum
    ELSE IF f \in IdFields THEN UndefinedId
    ELSE IF f \in ListFields THEN <<>>
    ELSE Undefined

IsUndefined(f, v) ==
    IF f \in ListFields THEN FALSE ELSE v = UndefinedOf(f)

-----------------------------------------------------------------------------
(* JSON text and stream files *)

NL == [k |-> "nl"]
SP == [k |-> "sp"]
Junk == [k |-> "junk"]

\* JSON.stringify(o): keys holding undefined are left out of the text.
stringify(o) ==
    [k |-> "obj",
     v |-> [f \in {g \in DOMAIN o : ~IsUndefined(g, o[g])} |-> o[f]]]

\* A line written without its newline.
stringifyLineNoNewline(o) == <<stringify(o)>>

\* JSON.stringify(o) + '\n'
stringifyLine(o) == <<stringify(o), NL>>

\* JSON.parse of the text of one object, read back with the fields of its
\* kind: a key the text does not hold reads as undefined.
parseObject(text, fields) ==
    [f \in fields |-> IF f \in DOMAIN text THEN text[f] ELSE UndefinedOf(f)]

IsBlank(t) == t.k \in {"nl", "sp"}

RECURSIVE trimStart(_)
trimStart(s) ==
    IF s # <<>> /\ IsBlank(Head(s)) THEN trimStart(Tail(s)) ELSE s

RECURSIVE trimEnd(_)
trimEnd(s) ==
    IF s # <<>> /\ IsBlank(s[Len(s)])
    THEN trimEnd(SubSeq(s, 1, Len(s) - 1))
    ELSE s

\* String.prototype.trim
trim(s) == trimEnd(trimStart(s))

\* String.prototype.split('\n'): the pieces between the newlines.
RECURSIVE splitLines(_, _)
splitLines(s, cur) ==
    IF s = <<>> THEN <<cur>>
    ELSE IF Head(s).k = "nl" THEN <<cur>> \o splitLines(Tail(s), <<>>)
    ELSE splitLines(Tail(s), Append(cur, Head(s)))

NonBlankLine(line) == trim(line) # <<>>

\* Array.prototype.filter(line => line.trim())
RECURSIVE filterNonBlank(_)
filterNonBlank(lines) ==
    IF lines = <<>> THEN <<>>
    ELSE IF NonBlankLine(Head(lines))
         THEN <<Head(lines)>> \o filterNonBlank(Tail(lines))
         ELSE filterNonBlank(Tail(lines))

\* content.trim().split('\n').filter(line => line.trim())
fileLines(content) == filterNonBlank(splitLines(trim(content), <<>>))

\* JSON.parse(line) succeeds when the line is the text of one JSON value,
\* white space around it allowed.
ParsesAsJson(line) == Len(trim(line)) = 1 /\ trim(line)[1].k = "obj"

FirstBadLine(lines) ==
    IF \E i \in 1..Len(lines) : ~ParsesAsJson(lines[i])
    THEN CHOOSE i \in 1..Len(lines) :
            /\ ~ParsesAsJson(lines[i])
            /\ \A j \in 1..(i - 1) : ParsesAsJson(lines[j])
    ELSE 0

\* lines.map((line, index) => JSON.parse(line)), which throws
\* `Invalid JSON on line ${index + 1}` at the first line that does not parse.
readRecords(content, fields) ==
    LET lines == fileLines(content)
        bad == FirstBadLine(lines)
    IN IF bad = 0
       THEN [ok |-> TRUE, line |-> 0,
             list |-> [i \in 1..Len(lines) |->
                          parseObject(trim(lines[i])[1].v, fields)]]
       ELSE [ok |-> FALSE, line |-> bad, list |-> <<>>]

\* readPromises that passes over the lines that do not parse.
readPromisesSkipping(content) ==
    LET lines == fileLines(content)
        good == SelectSeq(lines, ParsesAsJson)
    IN [ok |-> TRUE, line |-> 0,
        list |-> [i \in 1..Len(good) |->
                     parseObject(trim(good[i])[1].v, PromiseFields)]]

readLedger(content) == readRecords(content, EntryFields)
readPromises(content) == readRecords(content, PromiseFields)
readReports(content) == readRecords(content, ReportFields)

\* promises.map(p => JSON.stringify(p)).join('\n') + '\n'
RECURSIVE joinLines(_)
joinLines(list) ==
    IF list = <<>> THEN <<>>
    ELSE IF Len(list) = 1 THEN <<stringify(list[1])>>
    ELSE <<stringify(list[1]), NL>> \o joinLines(Tail(list))

\* A rewrite that leaves the last line without its newline.
rewriteContentJoined(list) == joinLines(list)

rewriteContent(list) == joinLines(list) \o <<NL>>

-----------------------------------------------------------------------------
(* Schema validation (./schema/*.schema.json compiled by Ajv) *)

ArtifactActions == {"created", "modified", "deleted", "read"}
PromiseTypes == {"will-do", "will-not-do", "will-maintain", "will-provide"}
PromiseStatuses == {"active", "fulfilled", "broken", "withdrawn", "superseded"}
TerminalStatuses == PromiseStatuses \ {"active"}
ReporterRoles == {"actor", "witness", "human"}
VerdictStatuses == {"fulfilled", "partial", "broken"}

\* Confidence values are kept in hundredths: 85 is 0.85.
IsConfidence(c) == c >= 0 /\ c <= 100

isValidEntry(e) ==
    /\ e.id # UndefinedId
    /\ e.timestamp # UndefinedNum
    /\ e.agent # Undefined
    /\ e.session # UndefinedId
    /\ e.entryIndex >= 0
    /\ e.summary # Undefined
    /\ e.intent # Undefined
    /\ (e.confidence = UndefinedNum \/ IsConfidence(e.confidence))
    /\ \A i \in 1..Len(e.artifacts) :
          /\ e.artifacts[i].path # Undefined
          /\ e.artifacts[i].action \in ArtifactActions

isValidPromise(q) ==
    /\ q.id # UndefinedId
    /\ q.timestamp # UndefinedNum
    /\ q.promiser # Undefined
    /\ q.promisee # Undefined
    /\ q.ptype \in PromiseTypes
    /\ q.summary # Undefined
    /\ q.status \in PromiseStatuses

isValidReport(r) ==
    /\ r.id # UndefinedId
    /\ r.timestamp # UndefinedNum
    /\ r.agent # Undefined
    /\ r.role \in ReporterRoles
    /\ r.promiseId # UndefinedId
    /\ r.workCompleted # Undefined
    /\ IsConfidence(r.confidenceInCompletion)
    /\ (r.verdict = Undefined
           \/ (r.verdict \in VerdictStatuses /\ r.reasoning # Undefined))

-----------------------------------------------------------------------------
(* Factories *)

\* uuidv4(): an id nobody holds yet.  Promise ids are drawn from a pool in
\* which ids share prefixes; entry, session and report ids are numbered.
PromiseIdPool == {<<1, 1>>, <<1, 2>>}
EntryIds == {id \in uuids : id[1] = 8}
ReportIds == {id \in uuids : id[1] = 9}
PromiseIds == uuids \cap PromiseIdPool

\* A uuidv4() that hands out the same entry id again.
RepeatedEntryId == <<8, 1>>

NextEntryId == <<8, Cardinality(EntryIds) + 1>>
NextReportId == <<9, Cardinality(ReportIds) + 1>>
SessionOf(id) == <<7, id[2]>>

\* createEntry: options.session ?? { id: uuidv4(), entryIndex: 0 }
createEntry(id, t, in) ==
    [id |-> id, timestamp |-> t, agent |-> in.agent,
     session |-> IF "session" \in DOMAIN in THEN in.session.id
                 ELSE SessionOf(id),
     entryIndex |-> IF "session" \in DOMAIN in THEN in.session.entryIndex
                    ELSE 0,
     summary |-> in.summary, intent |-> in.intent,
     confidence |-> in.confidence, artifacts |-> in.artifacts]

\* createPromise that hands out a promise already resolved.
createPromiseFulfilled(id, t, in) ==
    [id |-> id, timestamp |-> t, promiser |-> in.promiser,
     promisee |-> in.promisee, ptype |-> in.ptype, summary |-> in.summary,
     status |-> "fulfilled", resolvedBy |-> UndefinedId,
     resolvedAt |-> UndefinedNum, supersededBy |-> UndefinedId]

createPromise(id, t, in) ==
    [id |-> id, timestamp |-> t, promiser |-> in.promiser,
     promisee |-> in.promisee, ptype |-> in.ptype, summary |-> in.summary,
     status |-> "active", resolvedBy |-> UndefinedId,
     resolvedAt |-> UndefinedNum, supersededBy |-> UndefinedId]

createWorkReport(id, t, in) ==
    [id |-> id, timestamp |-> t, agent |-> in.agent, role |-> in.role,
     promiseId |-> in.promiseId, workCompleted |-> in.workCompleted,
     confidenceInCompletion |-> in.confidenceInCompletion,
     verdict |-> Undefined, reasoning |-> Undefined]

\* A confidence that takes a partial verdict for no completion at all.
verdictConfidenceAllOrNothing(status) ==
    IF status = "fulfilled" THEN 100 ELSE 0

verdictConfidence(status) ==
    IF status = "fulfilled" THEN 100
    ELSE IF status = "partial" THEN 50 ELSE 0

\* createVerdictReport that signs the verdict as the actor.
createVerdictReportByActor(id, t, agent, promiseId, status, reasoning) ==
    [id |-> id, timestamp |-> t, agent |-> agent, role |-> "actor",
     promiseId |-> promiseId,
     workCompleted |-> "Reviewed promise fulfillment",
     confidenceInCompletion |-> verdictConfidence(status),
     verdict |-> status, reasoning |-> reasoning]

createVerdictReport(id, t, agent, promiseId, status, reasoning) ==
    [id |-> id, timestamp |-> t, agent |-> agent, role |-> "human",
     promiseId |-> promiseId,
     workCompleted |-> "Reviewed promise fulfillment",
     confidenceInCompletion |-> verdictConfidence(status),
     verdict |-> status, reasoning |-> reasoning]

-----------------------------------------------------------------------------
(* What callers pass in *)

EntryInputs ==
    {[agent |-> "claude", summary |-> "refactor auth", intent |-> i,
      confidence |-> c,
      artifacts |-> <<[path |-> <<"src", "a.ts">>, action |-> "modified"]>>] :
        i \in {"add feature", Undefined}, c \in {UndefinedNum}}

\* Entries of a caller that names its session: options.session of
\* createEntry.
SessionEntryInputs ==
    {[agent |-> "claude", summary |-> "refactor auth",
      intent |-> "add feature", confidence |-> UndefinedNum,
      artifacts |-> <<>>,
      session |-> [id |-> <<7, 0>>, entryIndex |-> k]] : k \in {0, 1}}

PromiseInputs ==
    {[promiser |-> "claude", promisee |-> "*", ptype |-> ty,
      summary |-> "Add OAuth"] : ty \in {"will-do", "maybe"}}

WorkReportInputs ==
    {[agent |-> "claude", role |-> "actor", promiseId |-> id,
      workCompleted |-> "PKCE flow", confidenceInCompletion |-> 60] :
        id \in PromiseIdPool}
    \cup {[agent |-> "claude", role |-> "actor", promiseId |-> <<1, 1>>,
           workCompleted |-> "PKCE flow", confidenceInCompletion |-> 150]}

\* The id of the promise that replaces a superseded one.
NewPromiseIds == {<<1, 2>>}

\* An id reference typed at the command line: a full id or its first digit.
IdReferences == {<<1>>, <<1, 2>>}

\* What the queries are asked for.
LastNs == {0, 2}
QueryAgents == {"claude"}
QueryPaths == {<<"a.ts">>, <<"src", "a.ts">>}
QueryIntents == {"add feature"}
QueryReportIds == {<<9, 1>>}

\* The entries of the streams the queries are run on: an entry on src/a.ts
\* with the intent asked about and no confidence, one on src/a.ts with
\* another intent and confidence 0.7, and one that changes b.ts and reads
\* a.ts, with confidence 0.5.
EntryKinds ==
    {[agent |-> "claude", summary |-> "refactor auth",
      intent |-> "add feature", confidence |-> UndefinedNum,
      artifacts |-> <<[path |-> <<"src", "a.ts">>, action |-> "modified"]>>],
     [agent |-> "cursor", summary |-> "drop auth",
      intent |-> "remove feature", confidence |-> 70,
      artifacts |-> <<[path |-> <<"src", "a.ts">>, action |-> "modified"]>>],
     [agent |-> "cursor", summary |-> "tweak b",
      intent |-> "remove feature", confidence |-> 50,
      artifacts |-> <<[path |-> <<"b.ts">>, action |-> "modified"],
                      [path |-> <<"a.ts">>, action |-> "read"]>>]}

\* The reports of the streams the queries are run on: a work report and a
\* verdict on one promise, and a work report on another promise.
ReportKinds ==
    {[verdict |-> Undefined, promiseId |-> <<1, 1>>,
      confidenceInCompletion |-> 60],
     [verdict |-> "fulfilled", promiseId |-> <<1, 1>>,
      confidenceInCompletion |-> UndefinedNum],
     [verdict |-> Undefined, promiseId |-> <<1, 2>>,
      confidenceInCompletion |-> 85]}

-----------------------------------------------------------------------------
(* The store functions, as functions of the file content they read *)

\* findIndex whose -1 is taken for the last element.
findIndexLast(list, id) ==
    IF \E i \in 1..Len(list) : list[i].id = id
    THEN CHOOSE i \in 1..Len(list) :
            /\ list[i].id = id
            /\ \A j \in 1..(i - 1) : list[j].id # id
    ELSE Len(list)

\* Array.prototype.findIndex(p => p.id === id), counted from 1; 0 is JS's -1.
findIndex(list, id) ==
    IF \E i \in 1..Len(list) : list[i].id = id
    THEN CHOOSE i \in 1..Len(list) :
            /\ list[i].id = id
            /\ \A j \in 1..(i - 1) : list[j].id # id
    ELSE 0

\* Is `ref` the beginning of `id` (String.prototype.startsWith)?
startsWith(id, ref) ==
    /\ Len(ref) <= Len(id)
    /\ \A i \in 1..Len(ref) : id[i] = ref[i]

\* promises.find(p => p.id === ref || p.id.startsWith(ref)), as an index.
findByReference(list, ref) ==
    LET Match(i) == list[i].id = ref \/ startsWith(list[i].id, ref)
    IN IF \E i \in 1..Len(list) : Match(i)
       THEN CHOOSE i \in 1..Len(list) :
               Match(i) /\ \A j \in 1..(i - 1) : ~Match(j)
       ELSE 0

\* appendEntry that replaces the file by the new line.
appendEntryOverwrite(content, entry) ==
    IF ~isValidEntry(entry)
    THEN [threw |-> TRUE, content |-> content]
    ELSE [threw |-> FALSE, content |-> stringifyLine(entry)]

\* appendEntry: validate, then appendFileSync(line).
appendEntry(content, entry) ==
    IF ~isValidEntry(entry)
    THEN [threw |-> TRUE, content |-> content]
    ELSE [threw |-> FALSE, content |-> content \o stringifyLine(entry)]

\* appendPromise that leaves out the newline.
appendPromiseNoNewline(content, promise) ==
    IF ~isValidPromise(promise)
    THEN [threw |-> TRUE, content |-> content]
    ELSE [threw |-> FALSE, content |-> content \o <<stringify(promise)>>]

appendPromise(content, promise) ==
    IF ~isValidPromise(promise)
    THEN [threw |-> TRUE, content |-> content]
    ELSE [threw |-> FALSE, content |-> content \o stringifyLine(promise)]

\* appendReport that writes the line before it validates.
appendReportWriteFirst(content, report) ==
    [threw |-> ~isValidReport(report),
     content |-> content \o stringifyLine(report)]

appendReport(content, report) ==
    IF ~isValidReport(report)
    THEN [threw |-> TRUE, content |-> content]
    ELSE [threw |-> FALSE, content |-> content \o stringifyLine(report)]

\* resolvePromise that does not stamp the record.
resolveRecordNoDate(q, status, resolvedBy, t) ==
    [q EXCEPT !.status = status, !.resolvedBy = resolvedBy]

\* resolvePromise's update of the record it found.
resolveRecord(q, status, resolvedBy, t) ==
    [q EXCEPT !.status = status, !.resolvedBy = resolvedBy, !.resolvedAt = t]

\* supersedePromise that stamps the record anew.
supersedeRecordRestamped(q, newPromiseId, t) ==
    [q EXCEPT !.status = "superseded", !.supersededBy = newPromiseId,
              !.resolvedAt = t, !.timestamp = t]

\* supersedePromise's update of the record it found.
supersedeRecord(q, newPromiseId, t) ==
    [q EXCEPT !.status = "superseded", !.supersededBy = newPromiseId,
              !.resolvedAt = t]

\* A map that takes a partial verdict for a broken promise.
promiseStatusOfPartialBroken(verdictStatus) ==
    IF verdictStatus = "fulfilled" THEN "fulfilled" ELSE "broken"

\* A map that forgets the broken verdict.
promiseStatusOfFulfilledOnly(verdictStatus) ==
    IF verdictStatus = "fulfilled" THEN "fulfilled" ELSE "active"

\* addVerdict's map from the verdict to the promise status.
promiseStatusOf(verdictStatus) ==
    IF verdictStatus = "fulfilled" THEN "fulfilled"
    ELSE IF verdictStatus = "broken" THEN "broken" ELSE "active"

-----------------------------------------------------------------------------
(* Queries, as functions of the file content they read.  A query gives      *)
(* [ok, line, val]: ok is FALSE when the read threw (line: the line number  *)
(* of the error message), val is what the query returns.                    *)

DefaultLastN == 20
KeyConfidence == 70
KeyDecisionsLimit == 10
RecentFilesLimit == 20
ConflictWindow == 5

\* Array.prototype.slice(-n): the last n elements; slice(-0) is slice(0),
\* the whole array.
sliceLast(list, n) ==
    IF n = 0 \/ n >= Len(list) THEN list
    ELSE SubSeq(list, Len(list) - n + 1, Len(list))

\* Array.prototype.slice(0, n)
sliceFirst(list, n) ==
    IF n >= Len(list) THEN list ELSE SubSeq(list, 1, n)

\* String.prototype.includes: `part` occurs in `path`.  A path is the
\* sequence of its pieces.
includes(path, part) ==
    \E i \in 0..(Len(path) - Len(part)) :
        \A j \in 1..Len(part) : path[i + j] = part[j]

\* [...new Set(list)]: the distinct elements in order of first occurrence.
RECURSIVE distinct(_)
distinct(list) ==
    IF list = <<>> THEN <<>>
    ELSE LET front == distinct(SubSeq(list, 1, Len(list) - 1))
             last == list[Len(list)]
         IN IF \E i \in 1..Len(front) : front[i] = last
            THEN front ELSE Append(front, last)

\* entries.flatMap(e => e.artifacts.map(a => a.path))
RECURSIVE artifactPaths(_)
artifactPaths(entries) ==
    IF entries = <<>> THEN <<>>
    ELSE [i \in 1..Len(Head(entries).artifacts) |->
             Head(entries).artifacts[i].path]
         \o artifactPaths(Tail(entries))

\* The result of a query that filters or cuts what a read returned.
queryOf(r, val) ==
    [ok |-> r.ok, line |-> r.line, val |-> IF r.ok THEN val ELSE <<>>]

readLastN(content, n) ==
    LET r == readLedger(content) IN queryOf(r, sliceLast(r.list, n))

readByAgent(content, agentName) ==
    LET r == readLedger(content)
        ByAgent(e) == e.agent = agentName
    IN queryOf(r, SelectSeq(r.list, ByAgent))

\* e.artifacts.some(a => a.path === filePath || a.path.includes(filePath))
touchesFile(e, filePath) ==
    \E i \in 1..Len(e.artifacts) :
        \/ e.artifacts[i].path = filePath
        \/ includes(e.artifacts[i].path, filePath)

readByFile(content, filePath) ==
    LET r == readLedger(content)
        ByFile(e) == touchesFile(e, filePath)
    IN queryOf(r, SelectSeq(r.list, ByFile))

NoSummary ==
    [totalEntries |-> 0, lastUpdated |-> "Never", recentAgents |-> <<>>,
     recentFiles |-> <<>>, keyDecisions |-> <<>>]

\* generateSummary that counts the entries of its window.
generateSummaryCountingWindow(content, lastN) ==
    LET recent == readLastN(content, lastN)
        entries == recent.val
        Key(e) == e.confidence = UndefinedNum \/ e.confidence >= KeyConfidence
        decisions == SelectSeq(entries, Key)
    IN IF ~recent.ok THEN queryOf(recent, NoSummary)
       ELSE IF Len(entries) = 0 THEN queryOf(recent, NoSummary)
       ELSE queryOf(recent,
              [totalEntries |-> Len(entries),
               lastUpdated |-> entries[Len(entries)].timestamp,
               recentAgents |->
                   distinct([i \in 1..Len(entries) |-> entries[i].agent]),
               recentFiles |->
                   sliceFirst(distinct(artifactPaths(entries)),
                              RecentFilesLimit),
               keyDecisions |->
                   sliceLast([i \in 1..Len(decisions) |->
                                 <<decisions[i].agent, decisions[i].summary>>],
                             KeyDecisionsLimit)])

\* generateSummary without its test for an empty window: the timestamp of
\* the last entry is read from an entry that is not there.
generateSummaryNoGuard(content, lastN) ==
    LET recent == readLastN(content, lastN)
        entries == recent.val
        all == readLedger(content)
        Key(e) == e.confidence = UndefinedNum \/ e.confidence >= KeyConfidence
        decisions == SelectSeq(entries, Key)
    IN IF ~recent.ok THEN queryOf(recent, NoSummary)
       ELSE IF Len(entries) = 0
       THEN [ok |-> FALSE, line |-> 0, val |-> <<>>]
       ELSE queryOf(all,
              [totalEntries |-> Len(all.list),
               lastUpdated |-> entries[Len(entries)].timestamp,
               recentAgents |->
                   distinct([i \in 1..Len(entries) |-> entries[i].agent]),
               recentFiles |->
                   sliceFirst(distinct(artifactPaths(entries)),
                              RecentFilesLimit),
               keyDecisions |->
                   sliceLast([i \in 1..Len(decisions) |->
                                 <<decisions[i].agent, decisions[i].summary>>],
                             KeyDecisionsLimit)])

\* generateSummary(root, lastN): readLastN, then readLedger for the total.
generateSummary(content, lastN) ==
    LET recent == readLastN(content, lastN)
        entries == recent.val
        all == readLedger(content)
        Key(e) == e.confidence = UndefinedNum \/ e.confidence >= KeyConfidence
        decisions == SelectSeq(entries, Key)
    IN IF ~recent.ok THEN queryOf(recent, NoSummary)
       ELSE IF Len(entries) = 0 THEN queryOf(recent, NoSummary)
       ELSE queryOf(all,
              [totalEntries |-> Len(all.list),
               lastUpdated |-> entries[Len(entries)].timestamp,
               recentAgents |->
                   distinct([i \in 1..Len(entries) |-> entries[i].agent]),
               recentFiles |->
                   sliceFirst(distinct(artifactPaths(entries)),
                              RecentFilesLimit),
               keyDecisions |->
                   sliceLast([i \in 1..Len(decisions) |->
                                 <<decisions[i].agent, decisions[i].summary>>],
                             KeyDecisionsLimit)])

\* validateLedger / validatePromises / validateReports: every line that is
\* no JSON or no valid record gives an error `Line ${index + 1}: ...`.
validateLines(content, fields, IsValid(_)) ==
    LET lines == fileLines(content)
        Bad(i) == \/ ~ParsesAsJson(lines[i])
                  \/ ~IsValid(parseObject(trim(lines[i])[1].v, fields))
        errors == SelectSeq([i \in 1..Len(lines) |-> i], Bad)
    IN [ok |-> TRUE, line |-> 0,
        val |-> [valid |-> errors = <<>>, errors |-> errors]]

validateLedger(content) == validateLines(content, EntryFields, isValidEntry)

\* detectConflict(file, intent, ledger) of the design document.
detectConflict(file, intent, ledger) ==
    LET Touches(e) == \E i \in 1..Len(e.artifacts) :
                         e.artifacts[i].path = file
        recentEntries == sliceLast(SelectSeq(ledger, Touches), ConflictWindow)
        Differs(e) == e.intent # intent
        differing == SelectSeq(recentEntries, Differs)
    IN IF differing # <<>>
       THEN [conflict |-> TRUE, priorEntry |-> differing[1],
             priorIntent |-> differing[1].intent]
       ELSE [conflict |-> FALSE]

\* The content of a stream in which every record is one newline-terminated
\* line of its own.
RECURSIVE linesOf(_)
linesOf(list) ==
    IF list = <<>> THEN <<>>
    ELSE stringifyLine(Head(list)) \o linesOf(Tail(list))

\* The entry stream without the lines validateLedger rejects.
linesOfValid(content) ==
    LET lines == fileLines(content)
        Good(line) == /\ ParsesAsJson(line)
                      /\ isValidEntry(parseObject(trim(line)[1].v,
                                                  EntryFields))
        good == SelectSeq(lines, Good)
    IN linesOf([i \in 1..Len(good) |->
                   parseObject(trim(good[i])[1].v, EntryFields)])

\* The sequences of at most n elements of S.
SeqsUpTo(S, n) == UNION {[1..k -> S] : k \in 0..n}

\* The entry streams the store writes: entry i was made i-th, at time i.
WrittenLedgers ==
    {linesOf([i \in 1..Len(kinds) |-> createEntry(<<8, i>>, i, kinds[i])]) :
        kinds \in SeqsUpTo(EntryKinds, MaxEntries)}

\* The streams of a file edited by hand: lines of a record, of text that is
\* no JSON, blanks and empty lines.
RawStreams(record) ==
    SeqsUpTo({NL, SP, Junk, stringify(record)}, MaxTokens)

SampleEntry ==
    createEntry(<<8, 1>>, 0,
                [agent |-> "claude", summary |-> "refactor auth",
                 intent |-> "add feature", confidence |-> UndefinedNum,
                 artifacts |-> <<[path |-> <<"src", "a.ts">>,
                                  action |-> "modified"]>>])
SamplePromise ==
    createPromise(<<1, 1>>, 0,
                  [promiser |-> "claude", promisee |-> "*",
                   ptype |-> "will-do", summary |-> "Add OAuth"])
SampleReport ==
    createWorkReport(<<9, 1>>, 0,
                     [agent |-> "claude", role |-> "actor",
                      promiseId |-> <<1, 1>>, workCompleted |-> "PKCE flow",
                      confidenceInCompletion |-> 60])

\* The report of one kind: a work report, or the report of a verdict.
reportOfKind(id, t, kind) ==
    IF kind.verdict = Undefined
    THEN createWorkReport(id, t,
             [agent |-> "claude", role |-> "actor",
              promiseId |-> kind.promiseId, workCompleted |-> "PKCE flow",
              confidenceInCompletion |-> kind.confidenceInCompletion])
    ELSE createVerdictReport(id, t, "human", kind.promiseId, kind.verdict,
                             "done")

\* The report streams the store writes: report i was made i-th, at time i.
WrittenReports ==
    {linesOf([i \in 1..Len(kinds) |-> reportOfKind(<<9, i>>, i, kinds[i])]) :
        kinds \in SeqsUpTo(ReportKinds, MaxEntries)}

readLastNPromises(content, n) ==
    LET r == readPromises(content) IN queryOf(r, sliceLast(r.list, n))

\* readPromises(root).find(p => p.id === id); undefined when there is none.
getPromiseById(content, id) ==
    LET r == readPromises(content)
        index == findIndex(r.list, id)
    IN [ok |-> r.ok, line |-> r.line,
        val |-> IF r.ok /\ index # 0 THEN r.list[index] ELSE Undefined]

\* The number of elements of a list that pass a test.
count(list, Test(_)) == Len(SelectSeq(list, Test))

\* byAgent[name] = (byAgent[name] || 0) + 1 over the list.
countBy(list, field) ==
    [a \in {list[i][field] : i \in 1..Len(list)} |->
        Cardinality({i \in 1..Len(list) : list[i][field] = a})]

getPromiseSummary(content) ==
    LET r == readPromises(content)
    IN queryOf(r,
         [total |-> Len(r.list),
          byStatus |-> [st \in PromiseStatuses |->
              Cardinality({i \in 1..Len(r.list) : r.list[i].status = st})],
          byAgent |-> countBy(r.list, "promiser")])

validatePromises(content) ==
    validateLines(content, PromiseFields, isValidPromise)

readLastNReports(content, n) ==
    LET r == readReports(content) IN queryOf(r, sliceLast(r.list, n))

getReportById(content, id) ==
    LET r == readReports(content)
        index == findIndex(r.list, id)
    IN [ok |-> r.ok, line |-> r.line,
        val |-> IF r.ok /\ index # 0 THEN r.list[index] ELSE Undefined]
\* getReportsForPromise that passes over the reports of verdicts.
getReportsForPromiseWorkOnly(content, promiseId) ==
    LET r == readReports(content)
        ForPromise(x) == x.promiseId = promiseId /\ x.verdict = Undefined
    IN queryOf(r, SelectSeq(r.list, ForPromise))

getReportsForPromise(content, promiseId) ==
    LET r == readReports(content)
        ForPromise(x) == x.promiseId = promiseId
    IN queryOf(r, SelectSeq(r.list, ForPromise))

RECURSIVE sumConfidence(_)
sumConfidence(reports) ==
    IF reports = <<>> THEN 0
    ELSE Head(reports).confidenceInCompletion + sumConfidence(Tail(reports))

\* getAverageConfidenceForPromise: total / reports.length, kept as the
\* fraction of the total (in hundredths) over the number of reports; 0 when
\* no report names the promise.
getAverageConfidenceForPromise(content, promiseId) ==
    LET reports == getReportsForPromise(content, promiseId)
    IN IF ~reports.ok THEN queryOf(reports, Undefined)
       ELSE IF Len(reports.val) = 0
       THEN queryOf(reports, [total |-> 0, over |-> 1])
       ELSE queryOf(reports, [total |-> sumConfidence(reports.val),
                              over |-> Len(reports.val)])

getReportSummary(content) ==
    LET r == readReports(content)
        HasVerdict(x) == x.verdict # Undefined
    IN queryOf(r,
         [total |-> Len(r.list),
          withVerdicts |-> count(r.list, HasVerdict),
          byAgent |-> countBy(r.list, "agent"),
          verdictCounts |-> [v \in VerdictStatuses |->
              Cardinality({i \in 1..Len(r.list) : r.list[i].verdict = v})]])

validateReports(content) == validateLines(content, ReportFields, isValidReport)

-----------------------------------------------------------------------------
(* Processes *)

Idle == [op |-> "none"]
NoResult == [op |-> "none", outcome |-> "none"]

Return(p, r) ==
    /\ ret' = [ret EXCEPT ![p] = r]
    /\ pc' = [pc EXCEPT ![p] = "idle"]
    /\ loc' = [loc EXCEPT ![p] = Idle]

Goto(p, label, locals) ==
    /\ pc' = [pc EXCEPT ![p] = label]
    /\ loc' = [loc EXCEPT ![p] = locals]
    /\ ret' = [ret EXCEPT ![p] = [op |-> locals.op, outcome |-> "pending"]]

\* A process starts a store call.
Begin(p) ==
    /\ pc[p] = "idle"
    /\ budget > 0
    /\ budget' = budget - 1

InitFiles ==
    /\ ledgerFile = <<>>
    /\ promisesFile = <<>>
    /\ reportsFile = <<>>
    /\ now = 0
    /\ uuids = {}
    /\ pc = [p \in Procs |-> "idle"]
    /\ loc = [p \in Procs |-> Idle]
    /\ ret = [p \in Procs |-> NoResult]

Init == InitFiles /\ budget = MaxCalls

InitConc == InitFiles /\ budget = MaxConcCalls

\* Time passes.
Tick ==
    /\ now < MaxClock
    /\ now' = now + 1
    /\ UNCHANGED <<ledgerFile, promisesFile, reportsFile, uuids, pc, loc, ret,
                   budget>>

\* createEntry + appendEntry
AppendEntry(p, in) ==
    /\ Begin(p)
    /\ LET entry == createEntry(NextEntryId, now, in)
           w == appendEntry(ledgerFile, entry)
       IN /\ ledgerFile' = w.content
          /\ uuids' = IF w.threw THEN uuids ELSE uuids \cup {entry.id}
          /\ Return(p, IF w.threw
                        THEN [op |-> "appendEntry", outcome |-> "throw"]
                        ELSE [op |-> "appendEntry", outcome |-> "ok",
                              arg |-> entry])
    /\ UNCHANGED <<promisesFile, reportsFile, now>>

\* createPromise + appendPromise
AppendPromise(p, id, in) ==
    /\ Begin(p)
    /\ id \in PromiseIdPool \ uuids
    /\ LET promise == createPromise(id, now, in)
           w == appendPromise(promisesFile, promise)
       IN /\ promisesFile' = w.content
          /\ uuids' = IF w.threw THEN uuids ELSE uuids \cup {id}
          /\ Return(p, IF w.threw
                        THEN [op |-> "appendPromise", outcome |-> "throw"]
                        ELSE [op |-> "appendPromise", outcome |-> "ok",
                              arg |-> promise])
    /\ UNCHANGED <<ledgerFile, reportsFile, now>>

\* createWorkReport + appendReport
AppendReport(p, in) ==
    /\ Begin(p)
    /\ LET report == createWorkReport(NextReportId, now, in)
           w == appendReport(reportsFile, report)
       IN /\ reportsFile' = w.content
          /\ uuids' = IF w.threw THEN uuids ELSE uuids \cup {report.id}
          /\ Return(p, IF w.threw
                        THEN [op |-> "appendReport", outcome |-> "throw"]
                        ELSE [op |-> "appendReport", outcome |-> "ok",
                              arg |-> report])
    /\ UNCHANGED <<ledgerFile, promisesFile, now>>

\* resolvePromise up to its writeFileSync: read the file, find the record,
\* build the updated list.  `op` is the public function that was called.
ResolveRead(p, op, promiseId, status, resolvedBy) ==
    /\ Begin(p)
    /\ \E r \in {readPromises(promisesFile)} :
       \E index \in {findIndex(r.list, promiseId)} :
          IF ~r.ok
          THEN Return(p, [op |-> op, outcome |-> "throw"])
          ELSE IF index = 0
          THEN Return(p, [op |-> op, outcome |-> "null"])
          ELSE Goto(p, "write",
                    [op |-> op, id |-> promiseId, status |-> status,
                     index |-> index,
                     list |-> [r.list EXCEPT ![index] =
                         resolveRecord(@, status, resolvedBy, now)]])
    /\ UNCHANGED <<ledgerFile, promisesFile, reportsFile, now, uuids>>

ResolvePromise(p, promiseId, status) ==
    ResolveRead(p, "resolvePromise", promiseId, status, UndefinedId)

\* withdrawPromise(root, id) is resolvePromise(root, id, 'withdrawn').
WithdrawPromise(p, promiseId) ==
    ResolveRead(p, "withdrawPromise", promiseId, "withdrawn", UndefinedId)

\* supersedePromise up to its writeFileSync.
SupersedePromise(p, oldPromiseId, newPromiseId) ==
    /\ Begin(p)
    /\ \E r \in {readPromises(promisesFile)} :
       \E index \in {findIndex(r.list, oldPromiseId)} :
          IF ~r.ok
          THEN Return(p, [op |-> "supersedePromise", outcome |-> "throw"])
          ELSE IF index = 0
          THEN Return(p, [op |-> "supersedePromise", outcome |-> "null"])
          ELSE Goto(p, "write",
                    [op |-> "supersedePromise", id |-> oldPromiseId,
                     status |-> "superseded", index |-> index,
                     list |-> [r.list EXCEPT ![index] =
                         supersedeRecord(@, newPromiseId, now)]])
    /\ UNCHANGED <<ledgerFile, promisesFile, reportsFile, now, uuids>>

\* The rewrite, sent to the path of the report stream.
WritePromisesToReports(p) ==
    /\ pc[p] = "write"
    /\ reportsFile' = rewriteContent(loc[p].list)
    /\ Return(p, IF loc[p].op = "addVerdict"
                 THEN [op |-> "addVerdict", outcome |-> "ok",
                       id |-> loc[p].id, status |-> loc[p].verdict,
                       val |-> loc[p].list[loc[p].index],
                       report |-> loc[p].report]
                 ELSE [op |-> loc[p].op, outcome |-> "ok",
                       id |-> loc[p].id, status |-> loc[p].status,
                       val |-> loc[p].list[loc[p].index]])
    /\ UNCHANGED <<ledgerFile, promisesFile, now, uuids, budget>>

\* The writeFileSync that ends resolvePromise and supersedePromise: the whole
\* file is replaced by the list built from what was read.  The call returns
\* the updated record (inside addVerdict: with the report).
WritePromises(p) ==
    /\ pc[p] = "write"
    /\ promisesFile' = rewriteContent(loc[p].list)
    /\ Return(p, IF loc[p].op = "addVerdict"
                 THEN [op |-> "addVerdict", outcome |-> "ok",
                       id |-> loc[p].id, status |-> loc[p].verdict,
                       val |-> loc[p].list[loc[p].index],
                       report |-> loc[p].report]
                 ELSE [op |-> loc[p].op, outcome |-> "ok",
                       id |-> loc[p].id, status |-> loc[p].status,
                       val |-> loc[p].list[loc[p].index]])
    /\ UNCHANGED <<ledgerFile, reportsFile, now, uuids, budget>>

\* addVerdict that records its verdict although it finds no promise.
AddVerdictUnknown(p, promiseId, verdictStatus, reasoning, reporterAgent) ==
    /\ Begin(p)
    /\ \E r \in {readPromises(promisesFile)} :
       \E index \in {findIndex(r.list, promiseId)} :
       LET report == createVerdictReport(NextReportId, now, reporterAgent,
                                         promiseId, verdictStatus, reasoning)
       IN IF ~r.ok
          THEN /\ Return(p, [op |-> "addVerdict", outcome |-> "throw"])
               /\ UNCHANGED <<uuids, reportsFile>>
          ELSE IF index = 0
          THEN /\ Return(p, [op |-> "addVerdict", outcome |-> "null"])
               /\ reportsFile' = appendReport(reportsFile, report).content
               /\ uuids' = uuids \cup {report.id}
          ELSE /\ Goto(p, "av_append",
                       [op |-> "addVerdict", id |-> promiseId,
                        verdict |-> verdictStatus,
                        promise |-> r.list[index], report |-> report])
               /\ uuids' = uuids \cup {report.id}
               /\ UNCHANGED reportsFile
    /\ UNCHANGED <<ledgerFile, promisesFile, now>>

\* addVerdict that does not look for the promise before it reports on it.
AddVerdictUnchecked(p, promiseId, verdictStatus, reasoning, reporterAgent) ==
    /\ Begin(p)
    /\ LET report == createVerdictReport(NextReportId, now, reporterAgent,
                                         promiseId, verdictStatus, reasoning)
       IN /\ Goto(p, "av_append",
                  [op |-> "addVerdict", id |-> promiseId,
                   verdict |-> verdictStatus, promise |-> Idle,
                   report |-> report])
          /\ uuids' = uuids \cup {report.id}
    /\ UNCHANGED <<ledgerFile, promisesFile, reportsFile, now>>

\* addVerdict up to its appendReport: getPromiseById, createVerdictReport.
AddVerdict(p, promiseId, verdictStatus, reasoning, reporterAgent) ==
    /\ Begin(p)
    /\ \E r \in {readPromises(promisesFile)} :
       \E index \in {findIndex(r.list, promiseId)} :
       LET report == createVerdictReport(NextReportId, now, reporterAgent,
                                         promiseId, verdictStatus, reasoning)
       IN IF ~r.ok
          THEN /\ Return(p, [op |-> "addVerdict", outcome |-> "throw"])
               /\ UNCHANGED uuids
          ELSE IF index = 0
          THEN /\ Return(p, [op |-> "addVerdict", outcome |-> "null"])
               /\ UNCHANGED uuids
          ELSE /\ Goto(p, "av_append",
                       [op |-> "addVerdict", id |-> promiseId,
                        verdict |-> verdictStatus,
                        promise |-> r.list[index], report |-> report])
               /\ uuids' = uuids \cup {report.id}
    /\ UNCHANGED <<ledgerFile, promisesFile, reportsFile, now>>

\* addVerdict that leaves its report unwritten when the verdict is final and
\* goes straight on to the promise.
AddVerdictAppendActiveOnly(p) ==
    /\ pc[p] = "av_append"
    /\ IF promiseStatusOf(loc[p].verdict) = "active"
       THEN /\ reportsFile' = appendReport(reportsFile, loc[p].report).content
            /\ Return(p, [op |-> "addVerdict", outcome |-> "ok",
                          id |-> loc[p].id, status |-> loc[p].verdict,
                          val |-> loc[p].promise,
                          report |-> loc[p].report])
       ELSE /\ pc' = [pc EXCEPT ![p] = "av_resolve"]
            /\ UNCHANGED <<reportsFile, loc, ret>>
    /\ UNCHANGED <<ledgerFile, promisesFile, now, uuids, budget>>

\* addVerdict's appendReport, and its return when the verdict is not final.
AddVerdictAppend(p) ==
    /\ pc[p] = "av_append"
    /\ LET w == appendReport(reportsFile, loc[p].report)
       IN /\ reportsFile' = w.content
          /\ IF w.threw
             THEN Return(p, [op |-> "addVerdict", outcome |-> "throw"])
             ELSE IF promiseStatusOf(loc[p].verdict) = "active"
             THEN Return(p, [op |-> "addVerdict", outcome |-> "ok",
                             id |-> loc[p].id, status |-> loc[p].verdict,
                             val |-> loc[p].promise,
                             report |-> loc[p].report])
             ELSE /\ pc' = [pc EXCEPT ![p] = "av_resolve"]
                  /\ UNCHANGED <<loc, ret>>
    /\ UNCHANGED <<ledgerFile, promisesFile, now, uuids, budget>>

\* addVerdict's resolvePromise(root, promiseId, promiseStatus, report.id) up
\* to its writeFileSync; a null result is replaced by the promise read first.
AddVerdictResolve(p) ==
    /\ pc[p] = "av_resolve"
    /\ \E r \in {readPromises(promisesFile)} :
       \E index \in {findIndex(r.list, loc[p].id)} :
          IF ~r.ok
          THEN Return(p, [op |-> "addVerdict", outcome |-> "throw"])
          ELSE IF index = 0
          THEN Return(p, [op |-> "addVerdict", outcome |-> "ok",
                          id |-> loc[p].id, status |-> loc[p].verdict,
                          val |-> loc[p].promise, report |-> loc[p].report])
          ELSE /\ pc' = [pc EXCEPT ![p] = "write"]
               /\ loc' = [loc EXCEPT ![p] =
                    [op |-> "addVerdict", id |-> loc[p].id,
                     verdict |-> loc[p].verdict, report |-> loc[p].report,
                     index |-> index,
                     list |-> [r.list EXCEPT ![index] =
                         resolveRecord(@, promiseStatusOf(loc[p].verdict),
                                       loc[p].report.id, now)]]]
               /\ UNCHANGED ret
    /\ UNCHANGED <<ledgerFile, promisesFile, reportsFile, now, uuids, budget>>

\* The process is terminated inside a call.
Crash(p) ==
    /\ pc[p] # "idle"
    /\ Return(p, [op |-> loc[p].op, outcome |-> "crashed"])
    /\ UNCHANGED <<ledgerFile, promisesFile, reportsFile, now, uuids, budget>>

\* readLedger, readPromises, readReports
ReadAll(p, store) ==
    /\ Begin(p)
    /\ \E r \in {IF store = "ledger" THEN readLedger(ledgerFile)
                 ELSE IF store = "promises" THEN readPromises(promisesFile)
                 ELSE readReports(reportsFile)} :
          Return(p, [op |-> "readAll", store |-> store,
                     outcome |-> IF r.ok THEN "ok" ELSE "throw",
                     line |-> r.line, val |-> r.list])
    /\ UNCHANGED <<ledgerFile, promisesFile, reportsFile, now, uuids>>

\* The lookup of the promise commands: "Find promise by full or partial ID".
FindPromise(p, ref) ==
    /\ Begin(p)
    /\ \E r \in {readPromises(promisesFile)} :
       \E index \in {findByReference(r.list, ref)} :
          IF ~r.ok
          THEN Return(p, [op |-> "findPromise", ref |-> ref,
                          outcome |-> "throw"])
          ELSE IF index = 0
          THEN Return(p, [op |-> "findPromise", ref |-> ref,
                          outcome |-> "notfound"])
          ELSE Return(p, [op |-> "findPromise", ref |-> ref,
                          outcome |-> "found", val |-> r.list[index]])
    /\ UNCHANGED <<ledgerFile, promisesFile, reportsFile, now, uuids>>

Step(p) ==
    \/ \E in \in EntryInputs : AppendEntry(p, in)
    \/ \E id \in PromiseIdPool, in \in PromiseInputs : AppendPromise(p, id, in)
    \/ \E in \in WorkReportInputs : AppendReport(p, in)
    \/ \E id \in PromiseIdPool, s \in PromiseStatuses :
          ResolvePromise(p, id, s)
    \/ \E id \in PromiseIdPool : WithdrawPromise(p, id)
    \/ \E old \in PromiseIdPool, new \in NewPromiseIds :
          SupersedePromise(p, old, new)
    \/ WritePromises(p)
    \/ \E id \in PromiseIdPool, v \in VerdictStatuses :
          AddVerdict(p, id, v, "done", "human")
    \/ AddVerdictAppend(p)
    \/ AddVerdictResolve(p)
    \/ Crash(p)
    \/ \E store \in {"ledger", "promises", "reports"} : ReadAll(p, store)
    \/ \E ref \in IdReferences : FindPromise(p, ref)

\* One caller at a time: every call runs from start to end (or to the
\* process's termination) before the next one starts.
Next == Tick \/ \E p \in SeqProcs : Step(p)

Spec == Init /\ [][Next]_vars

\* Independent processes working on the promise stream, whose file-system
\* calls interleave.
ConcStep(p) ==
    \/ \E id \in PromiseIdPool, in \in PromiseInputs : AppendPromise(p, id, in)
    \/ \E id \in PromiseIdPool, s \in PromiseStatuses :
          ResolvePromise(p, id, s)
    \/ \E id \in PromiseIdPool : WithdrawPromise(p, id)
    \/ \E old \in PromiseIdPool, new \in NewPromiseIds :
          SupersedePromise(p, old, new)
    \/ WritePromises(p)

NextConc == Tick \/ \E p \in Procs : ConcStep(p)

SpecConc == InitConc /\ [][NextConc]_vars

\* Independent processes appending to the streams.  A caller first builds its
\* record (createEntry, createPromise, createWorkReport: an id and the time)
\* and then hands it to the append function, whose one write to the file is
\* appendFileSync; other processes run between the two.
CreateRecord(p, op, record) ==
    /\ Begin(p)
    /\ Goto(p, "append", [op |-> op, record |-> record])
    /\ uuids' = uuids \cup {record.id}
    /\ UNCHANGED <<ledgerFile, promisesFile, reportsFile, now>>

CreateEntry(p, in) ==
    CreateRecord(p, "appendEntry", createEntry(NextEntryId, now, in))

CreatePromise(p, id, in) ==
    /\ id \in PromiseIdPool \ uuids
    /\ CreateRecord(p, "appendPromise", createPromise(id, now, in))

CreateReport(p, in) ==
    CreateRecord(p, "appendReport", createWorkReport(NextReportId, now, in))

\* appendEntry, appendPromise or appendReport of the record built before.
AppendRecord(p) ==
    /\ pc[p] = "append"
    /\ LET op == loc[p].op
           w == IF op = "appendEntry"
                THEN appendEntry(ledgerFile, loc[p].record)
                ELSE IF op = "appendPromise"
                THEN appendPromise(promisesFile, loc[p].record)
                ELSE appendReport(reportsFile, loc[p].record)
       IN /\ ledgerFile' = IF op = "appendEntry" THEN w.content
                           ELSE ledgerFile
          /\ promisesFile' = IF op = "appendPromise" THEN w.content
                             ELSE promisesFile
          /\ reportsFile' = IF op = "appendReport" THEN w.content
                            ELSE reportsFile
          /\ Return(p, IF w.threw
                        THEN [op |-> op, outcome |-> "throw"]
                        ELSE [op |-> op, outcome |-> "ok",
                              arg |-> loc[p].record])
    /\ UNCHANGED <<now, uuids, budget>>

AppendStep(p) ==
    \/ \E in \in EntryInputs \cup SessionEntryInputs : CreateEntry(p, in)
    \/ \E id \in PromiseIdPool, in \in PromiseInputs : CreatePromise(p, id, in)
    \/ \E in \in WorkReportInputs : CreateReport(p, in)
    \/ AppendRecord(p)

NextAppend == \E p \in Procs : AppendStep(p)

SpecAppend == InitConc /\ [][NextAppend]_vars

\* A query that ends in one read of what it needs.
ReadOnly(p, op, arg, r) ==
    /\ Begin(p)
    /\ Return(p, [op |-> op, arg |-> arg,
                  outcome |-> IF r.ok THEN "ok" ELSE "throw",
                  line |-> r.line, val |-> r.val])
    /\ UNCHANGED <<ledgerFile, promisesFile, reportsFile, now, uuids>>

ReadLastN(p, n) == ReadOnly(p, "readLastN", n, readLastN(ledgerFile, n))

ReadByAgent(p, agentName) ==
    ReadOnly(p, "readByAgent", agentName, readByAgent(ledgerFile, agentName))

ReadByFile(p, filePath) ==
    ReadOnly(p, "readByFile", filePath, readByFile(ledgerFile, filePath))

GenerateSummary(p, lastN) ==
    ReadOnly(p, "generateSummary", lastN, generateSummary(ledgerFile, lastN))

\* validateLedger that rewrites the file without the lines it rejects.
ValidateLedgerRepairing(p) ==
    /\ Begin(p)
    /\ ledgerFile' = linesOfValid(ledgerFile)
    /\ Return(p, [op |-> "validateLedger", arg |-> Undefined,
                  outcome |-> "ok", line |-> 0,
                  val |-> validateLedger(ledgerFile).val])
    /\ UNCHANGED <<promisesFile, reportsFile, now, uuids>>

ValidateLedger(p) ==
    ReadOnly(p, "validateLedger", Undefined, validateLedger(ledgerFile))

\* The conflict check on the ledger as read.
DetectConflict(p, file, intent) ==
    LET r == readLedger(ledgerFile)
    IN ReadOnly(p, "detectConflict", [file |-> file, intent |-> intent],
                queryOf(r, detectConflict(file, intent, r.list)))

ReadLastNPromises(p, n) ==
    ReadOnly(p, "readLastNPromises", n, readLastNPromises(promisesFile, n))

GetPromiseById(p, id) ==
    ReadOnly(p, "getPromiseById", id, getPromiseById(promisesFile, id))

GetPromiseSummary(p) ==
    ReadOnly(p, "getPromiseSummary", Undefined,
             getPromiseSummary(promisesFile))

ValidatePromises(p) ==
    ReadOnly(p, "validatePromises", Undefined, validatePromises(promisesFile))

ReadLastNReports(p, n) ==
    ReadOnly(p, "readLastNReports", n, readLastNReports(reportsFile, n))

GetReportById(p, id) ==
    ReadOnly(p, "getReportById", id, getReportById(reportsFile, id))

GetReportsForPromise(p, promiseId) ==
    ReadOnly(p, "getReportsForPromise", promiseId,
             getReportsForPromise(reportsFile, promiseId))

GetAverageConfidenceForPromise(p, promiseId) ==
    ReadOnly(p, "getAverageConfidenceForPromise", promiseId,
             getAverageConfidenceForPromise(reportsFile, promiseId))

GetReportSummary(p) ==
    ReadOnly(p, "getReportSummary", Undefined, getReportSummary(reportsFile))

ValidateReports(p) ==
    ReadOnly(p, "validateReports", Undefined, validateReports(reportsFile))

QueryStep(p) ==
    \/ \E store \in {"ledger", "promises", "reports"} : ReadAll(p, store)
    \/ \E n \in LastNs : ReadLastN(p, n)
    \/ \E a \in QueryAgents : ReadByAgent(p, a)
    \/ \E f \in QueryPaths : ReadByFile(p, f)
    \/ \E n \in {DefaultLastN} \cup LastNs : GenerateSummary(p, n)
    \/ ValidateLedger(p)
    \/ \E f \in QueryPaths, i \in QueryIntents : DetectConflict(p, f, i)
    \/ \E n \in LastNs : ReadLastNPromises(p, n)
    \/ \E id \in PromiseIdPool : GetPromiseById(p, id)
    \/ \E ref \in IdReferences : FindPromise(p, ref)
    \/ GetPromiseSummary(p)
    \/ ValidatePromises(p)
    \/ \E n \in LastNs : ReadLastNReports(p, n)
    \/ \E id \in QueryReportIds : GetReportById(p, id)
    \/ \E id \in PromiseIdPool : GetReportsForPromise(p, id)
    \/ \E id \in PromiseIdPool : GetAverageConfidenceForPromise(p, id)
    \/ GetReportSummary(p)
    \/ ValidateReports(p)

\* The streams as the queries may find them: written by the stores, or
\* edited by hand, one stream at a time.  A query leaves nothing behind and
\* owes nothing to an earlier one: a run is one query.
InitRead ==
    /\ \/ /\ ledgerFile \in WrittenLedgers \cup RawStreams(SampleEntry)
          /\ promisesFile = <<>>
          /\ reportsFile = <<>>
       \/ /\ ledgerFile = <<>>
          /\ promisesFile \in RawStreams(SamplePromise)
          /\ reportsFile = <<>>
       \/ /\ ledgerFile = <<>>
          /\ promisesFile = <<>>
          /\ reportsFile \in WrittenReports \cup RawStreams(SampleReport)
    /\ now = 0
    /\ uuids = {}
    /\ pc = [p \in Procs |-> "idle"]
    /\ loc = [p \in Procs |-> Idle]
    /\ ret = [p \in Procs |-> NoResult]
    /\ budget = 1

NextRead == \E p \in SeqProcs : QueryStep(p)

SpecRead == InitRead /\ [][NextRead]_vars

\* Independent processes giving verdicts on promises: the steps of their
\* addVerdict calls interleave.
VerdictStep(p) ==
    \/ \E id \in PromiseIdPool, in \in PromiseInputs : AppendPromise(p, id, in)
    \/ \E id \in PromiseIdPool, v \in VerdictStatuses :
          AddVerdict(p, id, v, "done", "human")
    \/ AddVerdictAppend(p)
    \/ AddVerdictResolve(p)
    \/ WritePromises(p)

NextVerdict == \E p \in Procs : VerdictStep(p)

SpecVerdict == InitConc /\ [][NextVerdict]_vars

\* Processes giving verdicts, any of which may be terminated inside a call.
NextVerdictCrash == \E p \in Procs : VerdictStep(p) \/ Crash(p)

InitVerdictCrash == InitFiles /\ budget = MaxVerdictCalls

SpecVerdictCrash == InitVerdictCrash /\ [][NextVerdictCrash]_vars

\* One call of the store on a promise stream that was edited by hand.
InitEdited ==
    /\ ledgerFile = <<>>
    /\ promisesFile \in RawStreams(SamplePromise)
    /\ reportsFile = <<>>
    /\ now = 0
    /\ uuids = {}
    /\ pc = [p \in Procs |-> "idle"]
    /\ loc = [p \in Procs |-> Idle]
    /\ ret = [p \in Procs |-> NoResult]
    /\ budget = 1

SpecEdited == InitEdited /\ [][Next]_vars

\* Directories: an absolute path is the names below the file-system root,
\* a relative one the names below the working directory ('.' has none).
DirNames == {"home", "proj"}
StartDirs == [abs : BOOLEAN, parts : SeqsUpTo(DirNames, MaxDepth)]

\* current === path.parse(current).root: '/' is the root of an absolute
\* path, '' the root of a relative one, which no directory is.
isParseRoot(current) == current.abs /\ current.parts = <<>>

\* path.dirname: '/' of '/', '.' of '.' and of a single relative name.
dirname(current) ==
    IF current.parts = <<>> THEN current
    ELSE [current EXCEPT !.parts = SubSeq(@, 1, Len(@) - 1)]

\* The directories from `start` upwards, as far as its path names them.
dirsAbove(start) ==
    {[start EXCEPT !.parts = SubSeq(@, 1, k)] : k \in 0..Len(start.parts)}

\* findLedgersyncRoot(startDir), on a file system in which the directories
\* of `folders` hold a .ledgersync folder.
FindLedgersyncRoot(p, startDir, folders) ==
    /\ Begin(p)
    /\ Goto(p, "walk", [op |-> "findLedgersyncRoot", start |-> startDir,
                        folders |-> folders, current |-> startDir])
    /\ UNCHANGED <<ledgerFile, promisesFile, reportsFile, now, uuids>>

\* One turn of findLedgersyncRoot's loop: the test of the loop, existsSync,
\* and the step to the parent directory.
FindRootStep(p) ==
    /\ pc[p] = "walk"
    /\ LET current == loc[p].current
           done(val) == [op |-> "findLedgersyncRoot", outcome |-> "ok",
                         start |-> loc[p].start,
                         folders |-> loc[p].folders, val |-> val]
       IN IF isParseRoot(current)
          THEN Return(p, done([found |-> FALSE]))
          ELSE IF current \in loc[p].folders
          THEN Return(p, done([found |-> TRUE, dir |-> current]))
          ELSE /\ loc' = [loc EXCEPT ![p].current = dirname(current)]
               /\ UNCHANGED <<pc, ret>>
    /\ UNCHANGED <<ledgerFile, promisesFile, reportsFile, now, uuids, budget>>

InitRoot == InitFiles /\ budget = 1

NextRoot ==
    \E p \in SeqProcs :
        \/ \E startDir \in StartDirs :
           \E folders \in SUBSET dirsAbove(startDir) :
              FindLedgersyncRoot(p, startDir, folders)
        \/ FindRootStep(p)

\* The loop runs on for as long as it can.
SpecRoot ==
    InitRoot /\ [][NextRoot]_vars /\ \A p \in SeqProcs : WF_vars(FindRootStep(p))

\* A call that has started runs on, unless its process is terminated; nobody
\* has to start a call.
ContinueStep(p) ==
    WritePromises(p) \/ AddVerdictAppend(p) \/ AddVerdictResolve(p)

SpecFair == Init /\ [][Next]_vars /\ \A p \in SeqProcs : WF_vars(ContinueStep(p))

-----------------------------------------------------------------------------
(* The streams as their readers see them *)

Entries == readLedger(ledgerFile).list
Promises == readPromises(promisesFile).list
Reports == readReports(reportsFile).list

IsPrefixOf(a, b) == Len(a) <= Len(b) /\ SubSeq(b, 1, Len(a)) = a

\* The stored status of promise `id` in a promise file, "absent" when the
\* file holds no such promise.
statusIn(content, id) ==
    LET list == readPromises(content).list
        index == findIndex(list, id)
    IN IF index = 0 THEN "absent" ELSE list[index].status

\* The promise status that the verdict reports on promise `id` call for: the
\* one of the last fulfilled or broken verdict, "none" without such a report.
RECURSIVE impliedStatus(_, _)
impliedStatus(reports, id) ==
    IF reports = <<>> THEN "none"
    ELSE LET last == reports[Len(reports)]
         IN IF last.promiseId = id /\ last.verdict \in {"fulfilled", "broken"}
            THEN promiseStatusOf(last.verdict)
            ELSE impliedStatus(SubSeq(reports, 1, Len(reports) - 1), id)

VerdictsReflected ==
    \A i \in 1..Len(Promises) :
        impliedStatus(Reports, Promises[i].id) \in
            {"none", Promises[i].status}

-----------------------------------------------------------------------------
(* Claims *)

\* C1: the entry stream is append-only: whatever store operation takes a
\* step, the content of the entry stream before the step is a prefix of its
\* content after the step (nothing appended is changed, moved or removed).
C1_EntryStreamAppendOnly ==
    [][/\ IsPrefixOf(ledgerFile, ledgerFile')
       /\ IsPrefixOf(Entries, readLedger(ledgerFile').list)]_vars

\* C1 witness: an entry is in the stream and a resolve has since rewritten
\* the promise stream.
C1_Witness ==
    /\ Len(Entries) = 1
    /\ Len(Promises) = 1
    /\ ret["p1"].op = "resolvePromise"
    /\ ret["p1"].outcome = "ok"

\* C2: in each of the three stores, an append of a record that fails the
\* schema validation throws and leaves every stream file as it was.
C2_InvalidAppendLeavesFile ==
    [][\A p \in Procs :
        /\ \A in \in EntryInputs :
              (AppendEntry(p, in)
                  /\ ~isValidEntry(createEntry(NextEntryId, now, in)))
              => /\ ret'[p] = [op |-> "appendEntry", outcome |-> "throw"]
                 /\ UNCHANGED <<ledgerFile, promisesFile, reportsFile>>
        /\ \A id \in PromiseIdPool, in \in PromiseInputs :
              (AppendPromise(p, id, in)
                  /\ ~isValidPromise(createPromise(id, now, in)))
              => /\ ret'[p] = [op |-> "appendPromise", outcome |-> "throw"]
                 /\ UNCHANGED <<ledgerFile, promisesFile, reportsFile>>
        /\ \A in \in WorkReportInputs :
              (AppendReport(p, in)
                  /\ ~isValidReport(createWorkReport(NextReportId, now, in)))
              => /\ ret'[p] = [op |-> "appendReport", outcome |-> "throw"]
                 /\ UNCHANGED <<ledgerFile, promisesFile, reportsFile>>
      ]_vars

\* C2 witness: an append to the report stream, which already held a report,
\* has thrown.
C2_Witness ==
    /\ ret["p1"] = [op |-> "appendReport", outcome |-> "throw"]
    /\ Len(Reports) = 1

\* C3 (as claimed): a promise's status, once it is fulfilled, broken,
\* withdrawn or superseded, is never changed by a later step.
C3_TerminalStatusIsFinal ==
    [][\A id \in PromiseIdPool :
        statusIn(promisesFile, id) \in TerminalStatuses
        => statusIn(promisesFile', id) = statusIn(promisesFile, id)]_vars

\* C4: when addVerdict(P.id, v, reasoning) returns for an existing promise P
\* and v fulfilled or broken, the promise stream holds P with status v and
\* the report stream holds the returned report, with verdict v and
\* promiseId P.id.
C4_VerdictSetsPromiseStatus ==
    \A p \in Procs :
        (/\ ret[p].op = "addVerdict"
         /\ ret[p].outcome = "ok"
         /\ ret[p].status \in {"fulfilled", "broken"})
        => /\ statusIn(promisesFile, ret[p].id) = ret[p].status
           /\ ret[p].val.status = ret[p].status
           /\ \E i \in 1..Len(Reports) :
                 /\ Reports[i] = ret[p].report
                 /\ Reports[i].verdict = ret[p].status
                 /\ Reports[i].promiseId = ret[p].id

\* C4 witness: addVerdict has returned with a broken verdict.
C4_Witness ==
    /\ ret["p1"].op = "addVerdict"
    /\ ret["p1"].outcome = "ok"
    /\ ret["p1"].status = "broken"

\* C5 (as claimed): when two processes have each returned from a resolve,
\* withdraw or supersede of a different promise, both status changes are in
\* the promise stream.
C5_NoLostUpdate ==
    \A p \in Procs, q \in Procs :
        (/\ p # q
         /\ ret[p].outcome = "ok" /\ ret[q].outcome = "ok"
         /\ ret[p].op \in {"resolvePromise", "withdrawPromise",
                           "supersedePromise"}
         /\ ret[q].op \in {"resolvePromise", "withdrawPromise",
                           "supersedePromise"}
         /\ ret[p].id # ret[q].id)
        => /\ statusIn(promisesFile, ret[p].id) = ret[p].status
           /\ statusIn(promisesFile, ret[q].id) = ret[q].status

\* C6 (as claimed): after a process is terminated inside addVerdict, the
\* system comes to a state in which every promise has the status that its
\* verdict reports call for.  Only terminations after which further calls
\* can still be made are held against the claim.
C6_SelfHeals ==
    \A p \in SeqProcs :
        (ret[p].op = "addVerdict" /\ ret[p].outcome = "crashed" /\ budget > 0)
        ~> VerdictsReflected

\* C7 (as claimed): every report in the report stream names a promise of
\* the promise stream.
C7_ReportsReferencePromises ==
    \A i \in 1..Len(Reports) :
        \E j \in 1..Len(Promises) : Promises[j].id = Reports[i].promiseId

\* C8 (as claimed): the lookup by reference finds a promise only when the
\* reference is the full id of a promise or the beginning of the id of
\* exactly one promise.
C8_LookupIsUnambiguous ==
    \A p \in Procs :
        (ret[p].op = "findPromise" /\ ret[p].outcome = "found")
        => \/ \E j \in 1..Len(Promises) : Promises[j].id = ret[p].ref
           \/ Cardinality({j \in 1..Len(Promises) :
                             startsWith(Promises[j].id, ret[p].ref)}) = 1

\* C9: round trip: after a successful append of a record to a stream, reading
\* the stream gives the records read before the append, followed by a record
\* equal to the appended one.
C9_AppendThenReadAll ==
    [][\A p \in Procs :
        /\ (\E in \in EntryInputs : AppendEntry(p, in))
              /\ ret'[p].outcome = "ok"
           => /\ readLedger(ledgerFile').ok
              /\ readLedger(ledgerFile').list = Append(Entries, ret'[p].arg)
        /\ (\E id \in PromiseIdPool, in \in PromiseInputs :
                 AppendPromise(p, id, in))
              /\ ret'[p].outcome = "ok"
           => /\ readPromises(promisesFile').ok
              /\ readPromises(promisesFile').list
                    = Append(Promises, ret'[p].arg)
        /\ (\E in \in WorkReportInputs : AppendReport(p, in))
              /\ ret'[p].outcome = "ok"
           => /\ readReports(reportsFile').ok
              /\ readReports(reportsFile').list = Append(Reports, ret'[p].arg)
      ]_vars

\* C9 witness: a promise was appended to a stream that held a promise whose
\* status had been rewritten.
C9_Witness ==
    /\ ret["p1"].op = "appendPromise"
    /\ ret["p1"].outcome = "ok"
    /\ Len(Promises) = 2
    /\ Promises[1].status = "fulfilled"

\* C10: when resolvePromise(p.id, s) returns a record, that record and the
\* stored record with that id have status s, and the record's resolvedAt is
\* not earlier than the timestamp the promise had before the call.
C10_ResolveSetsStatusAndDate ==
    [][\A p \in Procs :
        (/\ pc[p] = "write"
         /\ loc[p].op = "resolvePromise"
         /\ ret'[p].outcome = "ok")
        => LET original == Promises[findIndex(Promises, loc[p].id)]
           IN /\ ret'[p].val.id = loc[p].id
              /\ ret'[p].val.status = loc[p].status
              /\ statusIn(promisesFile', loc[p].id) = loc[p].status
              /\ ret'[p].val.resolvedAt >= original.timestamp
              /\ ret'[p].val.timestamp = original.timestamp
      ]_vars

\* C10 witness: a resolve has returned a record that was resolved after the
\* promise was made.
C10_Witness ==
    /\ ret["p1"].op = "resolvePromise"
    /\ ret["p1"].outcome = "ok"
    /\ ret["p1"].val.resolvedAt > ret["p1"].val.timestamp

\* Is no promise of the stream known by `id`?
NoPromiseHas(id) == \A j \in 1..Len(Promises) : Promises[j].id # id

\* The store function a step of the single caller belongs to: the call it
\* starts, or the call it is in; "none" for a step that is nobody's call.
StepOp ==
    IF pc["p1"] # "idle" THEN loc["p1"].op
    ELSE IF budget' # budget THEN ret'["p1"].op
    ELSE "none"

\* C11: resolve, withdraw or supersede called with an id that no promise of
\* the (readable) stream has returns null without throwing and leaves the
\* promise stream file, like the other two, as it was.
C11_UnknownIdGivesNull ==
    [][\A p \in Procs, id \in PromiseIdPool :
        (/\ pc[p] = "idle"
         /\ budget' # budget
         /\ ret'[p].op \in {"resolvePromise", "withdrawPromise",
                            "supersedePromise"}
         /\ readPromises(promisesFile).ok
         /\ NoPromiseHas(id)
         /\ \/ \E s \in PromiseStatuses : ResolvePromise(p, id, s)
            \/ WithdrawPromise(p, id)
            \/ \E new \in NewPromiseIds : SupersedePromise(p, id, new))
        => /\ ret'[p].outcome = "null"
           /\ pc'[p] = "idle"
           /\ UNCHANGED <<ledgerFile, promisesFile, reportsFile>>
      ]_vars

\* C11 witness: a resolve of an unknown id has returned null while the
\* stream held another promise.
C11_Witness ==
    /\ ret["p1"] = [op |-> "resolvePromise", outcome |-> "null"]
    /\ Len(Promises) = 1

C13_PartialVerdictKeepsPromise ==
    [][\A p \in Procs :
        (/\ pc[p] # "idle"
         /\ loc[p].op = "addVerdict"
         /\ loc[p].verdict = "partial")
        => /\ promisesFile' = promisesFile
           /\ (pc'[p] = "idle" /\ ret'[p].outcome = "ok")
              => /\ pc[p] = "av_append"
                 /\ reportsFile' = reportsFile \o stringifyLine(loc[p].report)
                 /\ loc[p].report.verdict = "partial"
                 /\ ret'[p].val = loc[p].promise
                 /\ statusIn(promisesFile', loc[p].id) = loc[p].promise.status
      ]_vars

\* C13 witness: addVerdict has returned from a partial verdict on an active
\* promise.
C13_Witness ==
    /\ ret["p1"].op = "addVerdict"
    /\ ret["p1"].outcome = "ok"
    /\ ret["p1"].status = "partial"
    /\ statusIn(promisesFile, ret["p1"].id) = "active"

C19_StoresWriteOwnStream ==
    [][/\ StepOp = "appendEntry" => UNCHANGED <<promisesFile, reportsFile>>
       /\ StepOp \in {"appendPromise", "resolvePromise", "withdrawPromise",
                      "supersedePromise"}
          => UNCHANGED <<ledgerFile, reportsFile>>
       /\ StepOp = "appendReport" => UNCHANGED <<ledgerFile, promisesFile>>
       /\ StepOp = "addVerdict" => UNCHANGED ledgerFile
      ]_vars

\* C19 witness: addVerdict has returned, having written the report and the
\* promise streams next to an entry stream that holds an entry.
C19_Witness ==
    /\ ret["p1"].op = "addVerdict"
    /\ ret["p1"].outcome = "ok"
    /\ ret["p1"].status = "fulfilled"
    /\ Len(Entries) = 1
    /\ Len(Reports) = 1
    /\ statusIn(promisesFile, ret["p1"].id) = "fulfilled"

\* The stream file an append function writes to.
fileOf(op) ==
    IF op = "appendEntry" THEN ledgerFile
    ELSE IF op = "appendPromise" THEN promisesFile
    ELSE reportsFile

\* The records of the stream an append function writes to.
recordsOf(op) ==
    IF op = "appendEntry" THEN readLedger(ledgerFile)
    ELSE IF op = "appendPromise" THEN readPromises(promisesFile)
    ELSE readReports(reportsFile)

\* C18: when two processes have both returned from a successful append to
\* the same stream, the stream holds both records, at two places, each as a
\* complete newline-terminated line of its own; and no step takes away or
\* changes what a stream held before it.
C18_ConcurrentAppendsBothKept ==
    /\ [](\A p \in Procs, q \in Procs :
            (/\ p # q
             /\ ret[p].outcome = "ok" /\ ret[q].outcome = "ok"
             /\ ret[p].op = ret[q].op)
            => LET r == recordsOf(ret[p].op)
               IN /\ r.ok
                  /\ fileOf(ret[p].op) = linesOf(r.list)
                  /\ \E i \in 1..Len(r.list), j \in 1..Len(r.list) :
                        /\ i # j
                        /\ r.list[i] = ret[p].arg
                        /\ r.list[j] = ret[q].arg)
    /\ [][/\ IsPrefixOf(ledgerFile, ledgerFile')
          /\ IsPrefixOf(promisesFile, promisesFile')
          /\ IsPrefixOf(reportsFile, reportsFile')]_vars

\* C18 witness: two processes were inside an append to the report stream at
\* the same time, and the one that built its report second wrote first,
\* after a report that was there before.
C18_Witness ==
    /\ ret["p1"].op = "appendReport" /\ ret["p1"].outcome = "ok"
    /\ ret["p2"].op = "appendReport" /\ ret["p2"].outcome = "ok"
    /\ Len(Reports) = 3
    /\ Reports[2] = ret["p2"].arg
    /\ Reports[3] = ret["p1"].arg
    /\ ret["p1"].arg.id = <<9, 2>>
    /\ ret["p2"].arg.id = <<9, 3>>

\* The stream file a readAll reads.
streamOf(store) ==
    IF store = "ledger" THEN ledgerFile
    ELSE IF store = "promises" THEN promisesFile
    ELSE reportsFile

\* A line of a file that holds text and is no JSON.
Malformed(line) == NonBlankLine(line) /\ ~ParsesAsJson(line)

\* The lines of a file as an editor numbers them, and the number of the
\* first malformed one (0 when every line is blank or JSON).
fileLineOfFirstMalformed(content) ==
    LET lines == splitLines(content, <<>>)
    IN IF \E i \in 1..Len(lines) : Malformed(lines[i])
       THEN CHOOSE i \in 1..Len(lines) :
               /\ Malformed(lines[i])
               /\ \A j \in 1..(i - 1) : ~Malformed(lines[j])
       ELSE 0

\* C16 (as claimed): reading a stream that holds a malformed line returns no
\* record and fails with a parse error whose line number is the number, in
\* the file and counted from 1, of the first malformed line.
C16_ParseErrorNamesFileLine ==
    \A p \in Procs :
        (/\ ret[p].op = "readAll"
         /\ fileLineOfFirstMalformed(streamOf(ret[p].store)) # 0)
        => /\ ret[p].outcome = "throw"
           /\ ret[p].val = <<>>
           /\ ret[p].line = fileLineOfFirstMalformed(streamOf(ret[p].store))

\* C17 (as claimed): the conflict check for a path and a proposed intent
\* reports a conflict exactly when one of the five most recent entries whose
\* artifacts contain the path (as a substring) has another intent.
C17_ConflictIffRecentIntentDiffers ==
    \A p \in Procs :
        (ret[p].op = "detectConflict" /\ ret[p].outcome = "ok")
        => LET Touches(e) == touchesFile(e, ret[p].arg.file)
               recent == sliceLast(SelectSeq(Entries, Touches),
                                   ConflictWindow)
           IN ret[p].val.conflict
                 = (\E i \in 1..Len(recent) :
                        recent[i].intent # ret[p].arg.intent)

\* The read and aggregation operations.
QueryOps ==
    {"readAll", "readLastN", "readByAgent", "readByFile", "generateSummary",
     "validateLedger", "detectConflict", "readLastNPromises",
     "getPromiseById", "findPromise", "getPromiseSummary", "validatePromises",
     "readLastNReports", "getReportById", "getReportsForPromise",
     "getAverageConfidenceForPromise", "getReportSummary", "validateReports"}

\* C20: a read or aggregation operation leaves the three stream files as
\* they were, whether it returns or throws.
C20_QueriesWriteNothing ==
    [][\A p \in SeqProcs :
        (budget' # budget /\ ret'[p].op \in QueryOps)
        => UNCHANGED <<ledgerFile, promisesFile, reportsFile>>]_vars

\* C20 witness: validateLedger has reported errors on an entry stream that
\* holds a line that is no JSON.
C20_Witness ==
    /\ ret["p1"].op = "validateLedger"
    /\ ~ret["p1"].val.valid
    /\ fileLineOfFirstMalformed(ledgerFile) = 2

\* Is the file one newline-terminated line of JSON per record read from it,
\* and nothing else?
WellFormed(content, fields) ==
    /\ readRecords(content, fields).ok
    /\ content = linesOf(readRecords(content, fields).list)

\* Has the step of the single caller appended a record to the stream of
\* `appendOp`?  addVerdict appends to the report stream.
Appended(appendOp) ==
    \/ /\ pc["p1"] = "idle"
       /\ budget' # budget
       /\ ret'["p1"].op = appendOp
       /\ ret'["p1"].outcome = "ok"
    \/ /\ appendOp = "appendReport"
       /\ pc["p1"] = "av_append"
       /\ pc'["p1"] # "av_append"
       /\ ret'["p1"].outcome \in {"pending", "ok"}

\* A step leaves a stream file alone and appends nothing to it, or leaves
\* it well formed, with one record more exactly when the step appended one.
KeepsWellFormed(old, new, fields, appendOp) ==
    IF new = old
    THEN ~Appended(appendOp)
    ELSE /\ WellFormed(new, fields)
         /\ Len(readRecords(new, fields).list)
               = Len(readRecords(old, fields).list)
                    + (IF Appended(appendOp) THEN 1 ELSE 0)

\* C21: with one caller starting from empty files, every stream file is at
\* all times one newline-terminated line of JSON per record, without blank
\* or merged lines, so that reading it succeeds; and the number of records
\* read grows by one with every record appended and never otherwise.
C21_StreamsStayWellFormed ==
    /\ WellFormed(ledgerFile, EntryFields)
    /\ WellFormed(promisesFile, PromiseFields)
    /\ WellFormed(reportsFile, ReportFields)
    /\ [][/\ KeepsWellFormed(ledgerFile, ledgerFile', EntryFields,
                             "appendEntry")
          /\ KeepsWellFormed(promisesFile, promisesFile', PromiseFields,
                             "appendPromise")
          /\ KeepsWellFormed(reportsFile, reportsFile', ReportFields,
                             "appendReport")
         ]_vars

\* C21 witness: a promise was appended after a verdict had rewritten the
\* promise stream and added a report.
C21_Witness ==
    /\ ret["p1"].op = "appendPromise"
    /\ ret["p1"].outcome = "ok"
    /\ Len(Promises) = 2
    /\ Promises[1].status = "broken"
    /\ Len(Reports) = 1
    /\ Reports[1].verdict = "broken"

lastRecords(list, n) ==
    IF n >= Len(list) THEN list
    ELSE SubSeq(list, Len(list) - n + 1, Len(list))

Range(list) == {list[i] : i \in 1..Len(list)}

\* The place of the first occurrence of x in a list that holds it.
FirstIndex(list, x) ==
    CHOOSE i \in 1..Len(list) :
        list[i] = x /\ \A j \in 1..(i - 1) : list[j] # x

\* Is `out` the distinct elements of `list` in the order in which they first
\* occur, cut after the first `limit` of them?
IsFirstSeenPrefix(out, list, limit) ==
    /\ Len(out) = (IF Cardinality(Range(list)) <= limit
                   THEN Cardinality(Range(list)) ELSE limit)
    /\ Range(out) \subseteq Range(list)
    /\ \A i \in 1..Len(out), j \in 1..Len(out) :
          i < j => FirstIndex(list, out[i]) < FirstIndex(list, out[j])
    /\ \A x \in Range(list), i \in 1..Len(out) :
          FirstIndex(list, x) < FirstIndex(list, out[i]) => x \in Range(out)

\* The window of a summary: the last `lastN` entries of the stream.
SummaryWindow(lastN) == lastRecords(Entries, lastN)

\* C23 (as claimed): for every entry stream and window size, recentAgents of
\* generateSummary holds each agent name of the last windowSize entries once,
\* in order of first occurrence, and recentFiles holds the distinct artifact
\* paths of those entries in first-seen order, cut after the first 20.
C23_RecentAgentsAndFiles ==
    \A p \in SeqProcs :
        (ret[p].op = "generateSummary" /\ ret[p].outcome = "ok")
        => LET window == SummaryWindow(ret[p].arg)
               agents == [i \in 1..Len(window) |-> window[i].agent]
           IN /\ IsFirstSeenPrefix(ret[p].val.recentAgents, agents,
                                   Len(agents))
              /\ IsFirstSeenPrefix(ret[p].val.recentFiles,
                                   artifactPaths(window), RecentFilesLimit)
              /\ Len(ret[p].val.recentFiles) <= RecentFilesLimit

\* C24 (as claimed): for every entry stream and window size, keyDecisions of
\* generateSummary holds, in stream order, the rendering '[agent] summary' of
\* the entries of the window whose confidence is absent or at least 0.7, the
\* last 10 of them only; an entry of lower confidence never contributes.
C24_KeyDecisions ==
    \A p \in SeqProcs :
        (ret[p].op = "generateSummary" /\ ret[p].outcome = "ok")
        => LET window == SummaryWindow(ret[p].arg)
               Confident(e) == e.confidence = UndefinedNum \/ e.confidence >= 70
               key == SelectSeq(window, Confident)
               rendered == [i \in 1..Len(key) |->
                               <<key[i].agent, key[i].summary>>]
           IN /\ ret[p].val.keyDecisions = lastRecords(rendered, 10)
              /\ Len(ret[p].val.keyDecisions) <= 10

\* The sum of the confidence of the reports at the places `at` of a list.
RECURSIVE confidenceAt(_, _)
confidenceAt(list, at) ==
    IF at = {} THEN 0
    ELSE LET i == CHOOSE j \in at : TRUE
         IN list[i].confidenceInCompletion + confidenceAt(list, at \ {i})

\* C25: getAverageConfidenceForPromise(id) returns the arithmetic mean of
\* confidenceInCompletion over exactly the reports whose promiseId is id,
\* the reports of verdicts among them, and 0 when no report names id.  The
\* result total/over is compared with the mean as a fraction.
C25_AverageOverReportsOfPromise ==
    \A p \in SeqProcs :
        (/\ ret[p].op = "getAverageConfidenceForPromise"
         /\ ret[p].outcome = "ok")
        => LET at == {i \in 1..Len(Reports) :
                         Reports[i].promiseId = ret[p].arg}
           IN /\ ret[p].val.over > 0
              /\ IF at = {}
                 THEN ret[p].val.total = 0
                 ELSE ret[p].val.total * Cardinality(at)
                         = confidenceAt(Reports, at) * ret[p].val.over

\* C25 witness: the average was taken over a work report and a verdict of
\* the promise asked about, in a stream with a report on another promise.
C25_Witness ==
    /\ ret["p1"].op = "getAverageConfidenceForPromise"
    /\ ret["p1"].arg = <<1, 1>>
    /\ ret["p1"].val = [total |-> 160, over |-> 2]
    /\ Len(Reports) = 3
    /\ Reports[2].promiseId = <<1, 2>>
    /\ Reports[3].verdict = "fulfilled"

\* Do the records of a list have ids that differ from one another?
UniqueIds(list) ==
    \A i \in 1..Len(list), j \in 1..Len(list) :
        i # j => list[i].id # list[j].id

C27_SessionIndexIncreases ==
    \A i \in 1..Len(Entries), j \in 1..Len(Entries) :
        (i < j /\ Entries[i].session = Entries[j].session)
        => Entries[i].entryIndex < Entries[j].entryIndex

\* C28: every report with a verdict that addVerdict has built, returned or
\* appended has confidenceInCompletion 1.0 when the verdict is fulfilled,
\* 0.5 when it is partial and 0.0 when it is broken (in hundredths).
C28_VerdictConfidence ==
    LET Mapped(r) ==
            \/ r.verdict = "fulfilled" /\ r.confidenceInCompletion = 100
            \/ r.verdict = "partial" /\ r.confidenceInCompletion = 50
            \/ r.verdict = "broken" /\ r.confidenceInCompletion = 0
    IN /\ \A i \in 1..Len(Reports) :
             Reports[i].verdict # Undefined => Mapped(Reports[i])
       /\ \A p \in Procs :
             /\ (pc[p] \in {"av_append", "av_resolve", "write"}
                    /\ loc[p].op = "addVerdict")
                => Mapped(loc[p].report)
             /\ (ret[p].op = "addVerdict" /\ ret[p].outcome = "ok")
                => Mapped(ret[p].report)

\* C28 witness: addVerdict has returned from a partial verdict whose report,
\* with confidence 0.5, follows a work report in the report stream.
C28_Witness ==
    /\ ret["p1"].op = "addVerdict"
    /\ ret["p1"].outcome = "ok"
    /\ ret["p1"].status = "partial"
    /\ Len(Reports) = 2
    /\ Reports[1].verdict = Undefined
    /\ Reports[2].confidenceInCompletion = 50

\* C29 (as claimed): nothing is deleted from the promise stream under
\* concurrency: once all calls have returned, a promise that a process has
\* appended, also while another process was between the read and the
\* rewrite of a resolve, withdraw or supersede, is in the promise stream.
C29_AppendedPromiseStays ==
    \A p \in Procs :
        (/\ \A q \in Procs : pc[q] = "idle"
         /\ ret[p].op = "appendPromise"
         /\ ret[p].outcome = "ok")
        => \E j \in 1..Len(Promises) : Promises[j].id = ret[p].arg.id

\* The place of the report with id `id` in the report stream.
reportIndex(id) == findIndex(Reports, id)

\* C30 (as claimed): when two processes have both returned from addVerdict
\* on the same promise, one with verdict fulfilled and one with broken, the
\* promise's status and resolvedBy are those of the verdict report that is
\* the later of the two in the report stream.
C30_LaterVerdictWins ==
    \A p \in Procs, q \in Procs :
        (/\ p # q
         /\ pc[p] = "idle" /\ pc[q] = "idle"
         /\ ret[p].op = "addVerdict" /\ ret[p].outcome = "ok"
         /\ ret[q].op = "addVerdict" /\ ret[q].outcome = "ok"
         /\ ret[p].id = ret[q].id
         /\ {ret[p].status, ret[q].status} = {"fulfilled", "broken"}
         /\ reportIndex(ret[p].report.id) < reportIndex(ret[q].report.id))
        => LET stored == Promises[findIndex(Promises, ret[q].id)]
           IN /\ stored.status = ret[q].status
              /\ stored.resolvedBy = ret[q].report.id

\* C31: with promises resolved through addVerdict only (callers that run
\* side by side and may be terminated at any step), in every state a promise
\* that has a resolvedBy names a report that is in the report stream, that
\* is about this promise and whose verdict is the promise's status.
C31_ResolvedByNamesWrittenReport ==
    \A i \in 1..Len(Promises) :
        Promises[i].resolvedBy # UndefinedId =>
            \E j \in 1..Len(Reports) :
                /\ Reports[j].id = Promises[i].resolvedBy
                /\ Reports[j].promiseId = Promises[i].id
                /\ Reports[j].verdict = Promises[i].status

\* A promise resolved by a report, two reports in the stream, and a caller
\* that was terminated inside its addVerdict.
C31_Witness ==
    /\ \E i \in 1..Len(Promises) : Promises[i].resolvedBy # UndefinedId
    /\ \E p \in Procs : ret[p].op = "addVerdict" /\ ret[p].outcome = "crashed"
    /\ Len(Reports) >= 2

MutatingPromiseOps ==
    {"resolvePromise", "withdrawPromise", "supersedePromise", "addVerdict"}

HasMalformedLine(content) ==
    \E i \in 1..Len(splitLines(content, <<>>)) :
        Malformed(splitLines(content, <<>>)[i])

\* C32: resolve, withdraw, supersede and addVerdict called on a promise
\* stream that holds a malformed line fail with the parse error at once and
\* leave the three stream files as they were: no report is appended.
C32_MalformedStreamStopsMutation ==
    [][\A p \in SeqProcs :
          (/\ pc[p] = "idle"
           /\ budget' # budget
           /\ ret'[p].op \in MutatingPromiseOps
           /\ HasMalformedLine(promisesFile))
          => /\ ret'[p].outcome = "throw"
             /\ pc'[p] = "idle"
             /\ UNCHANGED <<ledgerFile, promisesFile, reportsFile>>]_vars

\* addVerdict has failed on a stream that holds the promise it was called
\* for and a line that is no JSON.
C32_Witness ==
    /\ ret["p1"].op = "addVerdict"
    /\ ret["p1"].outcome = "throw"
    /\ HasMalformedLine(promisesFile)
    /\ \E i \in 1..Len(promisesFile) :
          promisesFile[i] = stringify(SamplePromise)
    /\ reportsFile = <<>>

ResolutionFields == {"status", "resolvedBy", "resolvedAt", "supersededBy"}

\* C33: the write that ends a successful resolve, withdraw or supersede of
\* promise X by the single caller leaves the promise stream with as many
\* records as before, in the same order; the records with another id are as
\* they were, and no record differs from what it was in a field other than
\* status, resolvedBy, resolvedAt and supersededBy.
C33_ResolveChangesResolutionOnly ==
    [][\A p \in SeqProcs :
          (/\ pc[p] = "write"
           /\ pc'[p] = "idle"
           /\ ret'[p].outcome = "ok"
           /\ ret'[p].op \in {"resolvePromise", "withdrawPromise",
                              "supersedePromise"})
          => \A old \in {readPromises(promisesFile).list},
                new \in {readPromises(promisesFile').list} :
                /\ Len(new) = Len(old)
                /\ \A i \in 1..Len(old) :
                      /\ old[i].id # ret'[p].id => new[i] = old[i]
                      /\ \A f \in PromiseFields \ ResolutionFields :
                            new[i][f] = old[i][f]]_vars

\* A supersede has returned: the stream holds two promises, the second one
\* superseded at a later time than it was made and the first one active.
C33_Witness ==
    /\ ret["p1"].op = "supersedePromise"
    /\ ret["p1"].outcome = "ok"
    /\ Len(Promises) = 2
    /\ Promises[1].status = "active"
    /\ Promises[2].id = ret["p1"].id
    /\ Promises[2].status = "superseded"
    /\ Promises[2].resolvedAt > Promises[2].timestamp

\* C34 (as claimed): when the conflict check reports a conflict, priorEntry
\* is the oldest, in stream order, of those of the five most recent entries
\* touching the path (as readByFile finds them) whose intent is not the
\* proposed one, and priorIntent is the intent of that entry.
C34_PriorEntryIsOldestDiffering ==
    \A p \in Procs :
        (/\ ret[p].op = "detectConflict"
         /\ ret[p].outcome = "ok"
         /\ ret[p].val.conflict)
        => LET Touches(e) == touchesFile(e, ret[p].arg.file)
               recent == lastRecords(SelectSeq(Entries, Touches),
                                     ConflictWindow)
               Differs(e) == e.intent # ret[p].arg.intent
           IN \E i \in 1..Len(recent) :
                 /\ Differs(recent[i])
                 /\ \A j \in 1..(i - 1) : ~Differs(recent[j])
                 /\ ret[p].val.priorEntry = recent[i]
                 /\ ret[p].val.priorIntent = recent[i].intent

\* C35 (as claimed): readLastN, readLastNPromises and readLastNReports
\* called with n >= 0 return the last min(n, length) records of their stream
\* in stream order, none for n = 0; and the summary of a window of size 0
\* names no agent, no file and no decision.
C35_LastNReturnsAtMostN ==
    \A p \in SeqProcs :
        ret[p].outcome = "ok"
        => /\ ret[p].op = "readLastN"
                 => ret[p].val = lastRecords(Entries, ret[p].arg)
           /\ ret[p].op = "readLastNPromises"
                 => ret[p].val = lastRecords(Promises, ret[p].arg)
           /\ ret[p].op = "readLastNReports"
                 => ret[p].val = lastRecords(Reports, ret[p].arg)
           /\ (ret[p].op = "generateSummary" /\ ret[p].arg = 0)
                 => /\ ret[p].val.recentAgents = <<>>
                    /\ ret[p].val.recentFiles = <<>>
                    /\ ret[p].val.keyDecisions = <<>>

\* C36 (as claimed): in every state reached by appending active promises and
\* by resolve, withdraw, supersede and addVerdict, a promise of the stream
\* has a supersededBy exactly when its status is superseded.
C36_SupersededByIffSuperseded ==
    \A i \in 1..Len(Promises) :
        (Promises[i].supersededBy # UndefinedId)
            <=> (Promises[i].status = "superseded")

\* C37 (as claimed): in every state reached by appending active promises and
\* by resolve, withdraw, supersede and addVerdict, a promise of the stream
\* has a resolvedAt exactly when its status is not active.
C37_ResolvedAtIffNotActive ==
    \A i \in 1..Len(Promises) :
        (Promises[i].resolvedAt # UndefinedNum)
            <=> (Promises[i].status # "active")

\* C38: addVerdict called with a promiseId that matches no promise of the
\* promise stream, as the store wrote it or as it was edited by hand, ends at
\* once, with no result or with the parse error of the stream, and leaves
\* the report file and the promise file as they were, byte for byte.
C38_UnknownPromiseLeavesFiles ==
    [][\A p \in SeqProcs, id \in PromiseIdPool, v \in VerdictStatuses :
          (/\ pc[p] = "idle"
           /\ budget' # budget
           /\ ret'[p].op = "addVerdict"
           /\ NoPromiseHas(id)
           /\ AddVerdict(p, id, v, "done", "human"))
          => /\ pc'[p] = "idle"
             /\ ret'[p].outcome \in {"null", "throw"}
             /\ reportsFile' = reportsFile
             /\ promisesFile' = promisesFile]_vars

\* addVerdict has returned without a result on a stream that holds one
\* promise and blank lines, and there is no report.
C38_Witness ==
    /\ ret["p1"].op = "addVerdict"
    /\ ret["p1"].outcome = "null"
    /\ Len(Promises) = 1
    /\ Len(promisesFile) = 3
    /\ reportsFile = <<>>

\* C39: the summary of a stream that holds entries, made with a window of
\* n >= 1 entries, gives as totalEntries the number of records of the whole
\* stream, whatever the window, and as lastUpdated the timestamp of the last
\* record of the stream.
C39_SummaryCountsWholeStream ==
    \A p \in SeqProcs :
        (/\ ret[p].op = "generateSummary"
         /\ ret[p].outcome = "ok"
         /\ ret[p].arg >= 1
         /\ Len(Entries) >= 1)
        => /\ ret[p].val.totalEntries = Len(Entries)
           /\ ret[p].val.lastUpdated = Entries[Len(Entries)].timestamp

\* A summary over a window of two entries of a stream that holds more.
C39_Witness ==
    /\ ret["p1"].op = "generateSummary"
    /\ ret["p1"].outcome = "ok"
    /\ ret["p1"].arg = 2
    /\ Len(Entries) > 2
    /\ ret["p1"].val.totalEntries > 2

\* The directory of `folders`, all on one path upwards, that is lowest.
nearest(folders) ==
    CHOOSE d \in folders :
        \A e \in folders : Len(e.parts) <= Len(d.parts)

\* C40 (as claimed): findLedgersyncRoot comes to an end for every start
\* directory; it returns, of the directories from the start directory up to
\* and with the file-system root, the nearest one that holds a .ledgersync
\* folder, and null when none of them holds one.
C40_FindsNearestRoot ==
    /\ [](\A p \in SeqProcs :
            (ret[p].op = "findLedgersyncRoot" /\ ret[p].outcome = "ok")
            => ret[p].val =
                  IF ret[p].folders = {} THEN [found |-> FALSE]
                  ELSE [found |-> TRUE,
                        dir |-> nearest(ret[p].folders)])
    /\ \A p \in SeqProcs : (pc[p] = "walk") ~> (pc[p] = "idle")

====
